---------------------------- MODULE Spec2Model ----------------------------
(***************************************************************************)
(* A model of src/Promise.js (musicode/mini-promise): the promise state    *)
(* machine, resolvePromise / rejectPromise / adoptPromise, the reaction    *)
(* flush, then, Promise.all, and the nextTick queue.                       *)
(*                                                                         *)
(* JavaScript is single threaded but re-entrant, so every operation of the *)
(* program is an operator from a program state `s` (a record) to the       *)
(* program state after the call, evaluated to completion, nested calls and *)
(* user callbacks included.  An action of the model is one call made from  *)
(* the top of the event loop: a constructor call, a call of a settle       *)
(* callback, a then call, a Promise.all call, one nextTick task, one call  *)
(* made by a thenable that kept the callbacks it was given.                *)
(***************************************************************************)
EXTENDS Integers, Sequences, FiniteSets, TLC

\* ------------------------------------------------------------------ bounds
MaxPromises == 3           \* promise objects ever created (Spec)
MaxChainPromises == 4      \* the same in SpecChain
MaxThenablePromises == 3   \* the same in SpecThenable
MaxThenables == 1          \* thenables that kept their two callbacks for later
MaxCallbackPromises == 3   \* promise objects ever created (SpecCallback)
MaxPassPromises == 3       \* the same in SpecPass
MaxAllPromises == 5        \* the same in SpecAll
MaxRaisePromises == 3      \* the same in SpecRaise
MaxOrderPromises == 4      \* the same in SpecOrder

\* --------------------------------------------------------------- constants
STATUS_PENDING == "pending"
STATUS_FULFILLED == "fulfilled"
STATUS_REJECTED == "rejected"

\* ------------------------------------------------------------------ values
\* A JavaScript value: t is its kind, k the behaviour of an object's `then`
\* member (for t = "obj") or the identity of an error, n a number, or the
\* promise a promise reference / an object's script refers to.
Val(t, k, n) == [t |-> t, k |-> k, n |-> n]
Undef == Val("undef", "", 0)
Null == Val("null", "", 0)
Func == Val("func", "", 0)
Plain(n) == Val("plain", "", n)
PromiseRef(p) == Val("promise", "", p)
Obj(k, p) == Val("obj", k, p)
Err(k) == Val("error", k, 0)
NoExc == Val("none", "", 0)
\* The array `values` of the a-th call of Promise.all (arrays are objects:
\* the value is a reference, the elements are in alls[a].values), and an
\* index of such an array that has not been assigned.
ArrayRef(a) == Val("array", "", a)
Hole == Val("hole", "", 0)

SelfError == Err("promise and value refer to the same object.")
TypeError == Err("TypeError")
UserError == Err("user")

\* What x + 1 gives when x is not a number (NaN, or a string): a primitive.
NaN == Val("plain", "NaN", 0)

\* function (x) { return x + 1; }
Add1(x) == IF x.t = "plain" /\ x.k = "" THEN Plain(x.n + 1) ELSE NaN

\* A callback handed to then: k is what the function does when called; a
\* value that is not a function has k = "notFunction".
Cb(k, n, v) == [k |-> k, n |-> n, v |-> v]
NotFn == Cb("notFunction", 0, Undef)

isFunction(fn) == fn.k # "notFunction"

isPromise(p) == p.t = "promise"

\* ------------------------------------------------------------------- state
VARIABLES
    status,     \* status[p]: the status field of promise p
    value,      \* value[p]: the value field (Undef while absent)
    reason,     \* reason[p]: the reason field (Undef while absent)
    list,       \* list[p]: the reaction records { resolve, reject, promise }
    ticks,      \* tasks handed to nextTick and not run yet; each is flush(p)
    exposed,    \* promises whose two settle callbacks the program holds
    thens,      \* one-shot flag pairs of thenables that kept their callbacks
    alls,       \* the closure variables of every Promise.all call made
    log,        \* history: every consumption of a reaction record, in order
    first,      \* history: first[p] is the outcome p had when it left pending
    escaped     \* what the last top-level call threw to its caller, or NoExc

vars == <<status, value, reason, list, ticks, exposed, thens, alls, log,
          first, escaped>>

\* The program state an operation runs on.  ctx is the JavaScript call stack
\* (empty between actions), exc the exception in flight, ret the value the
\* last call returned.
Cur ==
    [status |-> status, value |-> value, reason |-> reason, list |-> list,
     ticks |-> ticks, exposed |-> exposed, thens |-> thens, alls |-> alls,
     log |-> log, first |-> first, ctx |-> <<>>, exc |-> NoExc, ret |-> Undef]

Commit(s) ==
    /\ status' = s.status
    /\ value' = s.value
    /\ reason' = s.reason
    /\ list' = s.list
    /\ ticks' = s.ticks
    /\ exposed' = s.exposed
    /\ thens' = s.thens
    /\ alls' = s.alls
    /\ log' = s.log
    /\ first' = s.first
    /\ escaped' = s.exc

Threw(s) == s.exc # NoExc

Outcome(st, v, r) == [status |-> st, value |-> v, reason |-> r]
NoOutcome == Outcome(STATUS_PENDING, Undef, Undef)

\* History only: remember the outcome of p the first time it is not pending.
Settled(s, p) ==
    IF s.first[p] = NoOutcome
    THEN [s EXCEPT !.first[p] = Outcome(s.status[p], s.value[p], s.reason[p])]
    ELSE s

Frame(op, p, pre) == [op |-> op, p |-> p, pre |-> pre]

Enter(s, op, p) == [s EXCEPT !.ctx = Append(@, Frame(op, p, s.status[p]))]

Leave(s) == [s EXCEPT !.ctx = SubSeq(@, 1, Len(@) - 1)]

NumPromises(s) == Len(s.status)

\* The functions of the program call each other in cycles (a settle callback
\* flushes, a flush calls user code, user code calls a settle callback).  A
\* call on such a cycle (of a settle callback, of flush, of resolvePromise
\* from a closure, of a function handed to then) is written
\* Call(name, s, arguments), which applies the definition of that name
\* further down.
RECURSIVE Call(_, _, _)

\* ------------------------------------------------------------ rejectPromise
rejectPromise(s, promise, r) ==
    IF s.status[promise] # STATUS_PENDING
    THEN s
    ELSE Settled([s EXCEPT !.status[promise] = STATUS_REJECTED,
                           !.reason[promise] = r], promise)

\* ------------------------------------------------------------------ Promise
\* Promise(noop), and the part of new Promise(executor) before the executor
\* is called: a new pending promise with an empty list.
Promise(s) ==
    [s EXCEPT !.status = Append(@, STATUS_PENDING),
              !.value = Append(@, Undef),
              !.reason = Append(@, Undef),
              !.list = Append(@, <<>>),
              !.first = Append(@, NoOutcome)]

\* --------------------------------------------------------------------- then
\* Mutant of nextTick: the task is run at once instead of later.
nextTickNow(s, me) == Call("flush", s, <<me>>)

nextTick(s, me) == [s EXCEPT !.ticks = Append(@, me)]

\* Mutants of me.list.push(record): at the front; twice.
listUnshift(l, item) == <<item>> \o l

listPushTwice(l, item) == Append(Append(l, item), item)

listPush(l, item) == Append(l, item)

\* Mutant of then: the flush is handed to nextTick whatever the status is.
thenAlwaysTicks(s, me, onFulfilled, onRejected) ==
    LET result == NumPromises(s) + 1
        s1 == Enter(Promise(s), "then", result)
        s2 == [s1 EXCEPT !.list[me] =
                 listPush(@, [resolve |-> onFulfilled, reject |-> onRejected,
                              promise |-> result])]
    IN  [Leave(nextTick(s2, me)) EXCEPT !.ret = PromiseRef(result)]

then(s, me, onFulfilled, onRejected) ==
    LET result == NumPromises(s) + 1
        s1 == Enter(Promise(s), "then", result)
        s2 == [s1 EXCEPT !.list[me] =
                 listPush(@, [resolve |-> onFulfilled, reject |-> onRejected,
                              promise |-> result])]
        s3 == IF s2.status[me] # STATUS_PENDING THEN nextTick(s2, me) ELSE s2
    IN  [Leave(s3) EXCEPT !.ret = PromiseRef(result)]

\* ------------------------------------------------------------- adoptPromise
\* Mutant of adoptPromise: a rejected target fulfils source with the reason.
adoptPromiseFulfils(s, source, target) ==
    LET st == s.status[target] IN
    IF st = STATUS_PENDING
    THEN then(s, target, Cb("adoptResolve", source, Undef),
                         Cb("adoptReject", source, Undef))
    ELSE IF st = STATUS_FULFILLED
    THEN Call("resolvePromise", s, <<source, s.value[target]>>)
    ELSE Call("resolvePromise", s, <<source, s.reason[target]>>)

adoptPromise(s, source, target) ==
    LET st == s.status[target] IN
    IF st = STATUS_PENDING
    THEN then(s, target, Cb("adoptResolve", source, Undef),
                         Cb("adoptReject", source, Undef))
    ELSE IF st = STATUS_FULFILLED
    THEN Call("resolvePromise", s, <<source, s.value[target]>>)
    ELSE rejectPromise(s, source, s.reason[target])

\* ----------------------------------------------------------- resolvePromise
Throw(s, e) == [s EXCEPT !.exc = e]

Caught(s) == [s EXCEPT !.exc = NoExc]

\* typeof value === 'object' || isFunction(value); typeof null is 'object'.
isObjectOrFunction(v) == v.t \in {"obj", "null", "func", "error", "array"}

\* What the thenable's then function does with the two callbacks it is given.
\* An object of kind k with n > 0 passes promise n where a value is passed.
ThenArg(v) == IF v.n > 0 THEN PromiseRef(v.n) ELSE Plain(1)

Step(op, v) == [op |-> op, v |-> v]

ThenScripts ==
    {"thenResolves", "thenResolvesRejects", "thenRejectsResolves",
     "thenResolvesThrows", "thenRejectsThrows", "thenThrows"}

ThenScript(v) ==
    CASE v.k = "thenResolves" -> <<Step("resolve", ThenArg(v))>>
      [] v.k = "thenResolvesRejects" ->
            <<Step("resolve", ThenArg(v)), Step("reject", Plain(2))>>
      [] v.k = "thenRejectsResolves" ->
            <<Step("reject", Plain(2)), Step("resolve", ThenArg(v))>>
      [] v.k = "thenResolvesThrows" ->
            <<Step("resolve", ThenArg(v)), Step("throw", UserError)>>
      [] v.k = "thenRejectsThrows" ->
            <<Step("reject", Plain(2)), Step("throw", UserError)>>
      [] v.k = "thenThrows" -> <<Step("throw", UserError)>>
      [] OTHER -> <<>>

\* isFunction(then) for the value's then member.
thenIsFunction(v) == v.t = "obj" /\ v.k \in ThenScripts \cup {"thenKeeps"}

\* var then = value.then: null has no members, a getter runs user code.
readThen(s, v) ==
    IF v.t = "null" THEN Throw(s, TypeError)
    ELSE IF v.t # "obj" THEN s
    ELSE IF v.k = "getterThrows" THEN Throw(s, UserError)
    ELSE IF v.k = "getterRejects"
    THEN Call("settleReject", s, <<v.n, Plain(2)>>)
    ELSE IF v.k = "getterResolves"
    THEN Call("settleResolve", s, <<v.n, Plain(2)>>)
    ELSE s

\* Mutant of catchThen: the error rejects the promise whatever the flags are.
catchThenAlways(s, promise, isResolved, isRejected) ==
    rejectPromise(Caught(s), promise, s.exc)

\* catch (e) { if (!isResolved && !isRejected) { rejectPromise(promise, e) } }
catchThen(s, promise, isResolved, isRejected) ==
    IF ~isResolved /\ ~isRejected
    THEN rejectPromise(Caught(s), promise, s.exc)
    ELSE Caught(s)

\* The first callback passed to then.call.
thenResolveFn(s, promise, v, isResolved) ==
    IF isResolved THEN s ELSE Call("resolvePromise", s, <<promise, v>>)

\* The second callback passed to then.call.
thenRejectFn(s, promise, r, isRejected) ==
    IF isRejected THEN s ELSE rejectPromise(s, promise, r)

\* then.call(value, function (value) {...}, function (reason) {...}) for a
\* then that calls its callbacks before it returns, inside the try block.
runThen(s, promise, steps, isResolved, isRejected) ==
    IF steps = <<>> THEN s
    ELSE LET st == Head(steps) IN
         IF st.op = "throw"
         THEN catchThen(Throw(s, st.v), promise, isResolved, isRejected)
         ELSE IF st.op = "resolve"
         THEN LET s1 == thenResolveFn(s, promise, st.v, isResolved) IN
              IF Threw(s1) THEN catchThen(s1, promise, TRUE, isRejected)
              ELSE Call("runThen", s1,
                        <<promise, Tail(steps), TRUE, isRejected>>)
         ELSE LET s1 == thenRejectFn(s, promise, st.v, isRejected) IN
              Call("runThen", s1, <<promise, Tail(steps), isResolved, TRUE>>)

\* if (!isProcessed) { promise.status = STATUS_FULFILLED; promise.value = value }
setFulfilled(s, promise, v) ==
    Settled([s EXCEPT !.status[promise] = STATUS_FULFILLED,
                      !.value[promise] = v], promise)

\* The object-or-function branch of resolvePromise.
resolveThenable(s, promise, v) ==
    LET s1 == readThen(s, v) IN
    IF Threw(s1) THEN catchThen(s1, promise, FALSE, FALSE)
    ELSE IF ~thenIsFunction(v) THEN setFulfilled(s1, promise, v)
    ELSE IF v.k = "thenKeeps"
    THEN [s1 EXCEPT !.thens = Append(@, [promise |-> promise,
                                         isResolved |-> FALSE,
                                         isRejected |-> FALSE])]
    ELSE runThen(s1, promise, ThenScript(v), FALSE, FALSE)

\* Mutant of resolvePromise: without the check of promise.status on entry.
resolvePromiseUnguarded(s, promise, v) ==
    IF v = PromiseRef(promise) THEN Throw(s, SelfError)
    ELSE IF isPromise(v)
    THEN adoptPromise(s, promise, v.n)
    ELSE IF isObjectOrFunction(v) THEN resolveThenable(s, promise, v)
    ELSE setFulfilled(s, promise, v)

resolvePromise(s, promise, v) ==
    IF s.status[promise] # STATUS_PENDING THEN s
    ELSE IF v = PromiseRef(promise) THEN Throw(s, SelfError)
    ELSE IF isPromise(v)
    THEN adoptPromise(s, promise, v.n)
    ELSE IF isObjectOrFunction(v) THEN resolveThenable(s, promise, v)
    ELSE setFulfilled(s, promise, v)

\* -------------------------------------------------------------- Promise.all
\* The closures of the a-th call of Promise.all.  The index of the model is
\* the index of the code plus one.  Each gives the state its own statements
\* leave and the call it ends with: resolvePromise(result, x); flush(result)
\* is the body of the executor's resolve callback of result, and
\* rejectPromise(result, x); flush(result) that of its reject callback.
CallOf(name, s, args) == [name |-> name, s |-> s, args |-> args]

NoCall(s) == CallOf("none", s, <<>>)

\* Mutant of onFulfilled: values.push(value) in place of values[index] = value.
allOnFulfilledPush(s, a, index, v) ==
    LET s1 == [s EXCEPT !.alls[a].values[s.alls[a].couter + 1] = v,
                        !.alls[a].couter = @ + 1]
    IN  IF s1.alls[a].couter = s1.alls[a].length
        THEN CallOf("settleResolve", s1, <<s.alls[a].result, ArrayRef(a)>>)
        ELSE NoCall(s1)

\* var onFulfilled = function (index, value) { values[index] = value;
\*     if (++couter === length) { resolvePromise(result, values); flush(result) } }
allOnFulfilled(s, a, index, v) ==
    LET s1 == [s EXCEPT !.alls[a].values[index] = v,
                        !.alls[a].couter = @ + 1]
    IN  IF s1.alls[a].couter = s1.alls[a].length
        THEN CallOf("settleResolve", s1, <<s.alls[a].result, ArrayRef(a)>>)
        ELSE NoCall(s1)

\* Mutant of onRejected: the reason is written whatever the status is.
allOnRejectedLast(s, a, index, r) ==
    LET result == s.alls[a].result
    IN  CallOf("flush", [s EXCEPT !.status[result] = STATUS_REJECTED,
                                  !.reason[result] = r], <<result>>)

\* var onRejected = function (index, reason) { rejectPromise(result, reason);
\*     flush(result) }
allOnRejected(s, a, index, r) ==
    CallOf("settleReject", s, <<s.alls[a].result, r>>)

\* for (var i = 0; i < length; i++) { promises[index].then(..., ...) }
RECURSIVE allLoop(_, _, _, _)
allLoop(s, a, promises, i) ==
    IF i > Len(promises) THEN s
    ELSE allLoop(then(s, promises[i], Cb("allFulfilled", a, Plain(i)),
                                      Cb("allRejected", a, Plain(i))),
                 a, promises, i + 1)

\* Promise.all = function (promises) { ... return result }
all(s, promises) ==
    LET result == NumPromises(s) + 1
        a == Len(s.alls) + 1
        s1 == [Promise(s) EXCEPT !.alls =
                 Append(@, [result |-> result, promises |-> promises,
                            length |-> Len(promises), couter |-> 0,
                            values |-> [i \in 1..Len(promises) |-> Hole]])]
    IN  [allLoop(s1, a, promises, 1) EXCEPT !.ret = PromiseRef(result)]

\* -------------------------------------------------------------------- flush
\* What a function passed to then does when flush calls it with param.
callCallback(s, cb, param, itemPromise) ==
    LET c == CASE cb.k = "throw" -> NoCall(Throw(s, UserError))
               [] cb.k = "settle" ->
                     CallOf("settleResolve", s, <<cb.n, cb.v>>)
               [] cb.k = "adoptResolve" ->
                     CallOf("resolvePromise", s, <<cb.n, param>>)
               [] cb.k = "adoptReject" ->
                     NoCall(rejectPromise(s, cb.n, param))
               [] cb.k = "allFulfilled" ->
                     allOnFulfilled(s, cb.n, cb.v.n, param)
               [] cb.k = "allRejected" ->
                     allOnRejected(s, cb.n, cb.v.n, param)
               [] OTHER -> NoCall(s)
        ret == CASE cb.k = "return" -> cb.v
                 [] cb.k = "returnOwn" -> PromiseRef(itemPromise)
                 [] cb.k = "add1" -> Add1(param)
                 [] OTHER -> Undef
    IN  [Call(c.name, c.s, c.args) EXCEPT !.ret = ret]

\* History only: the record whose derived promise is item.promise, queued on
\* parent, is consumed now.  sync: inside a settle call that found parent
\* pending; early: inside the then call that queued it; depth: nesting of
\* the calls in progress; fn: what the function called does ("notFunction"
\* when the outcome is passed through) and v the value it is written to
\* return.
InCall(s, op, p) == \E i \in 1..Len(s.ctx) : s.ctx[i].op = op /\ s.ctx[i].p = p

InSettle(s, p) ==
    \E i \in 1..Len(s.ctx) :
        /\ s.ctx[i].op = "settle"
        /\ s.ctx[i].p = p
        /\ s.ctx[i].pre = STATUS_PENDING

Consumed(s, item, parent, which) ==
    LET func == IF which = "resolve" THEN item.resolve
                ELSE IF which = "reject" THEN item.reject
                ELSE NotFn
    IN
    [s EXCEPT !.log = Append(@, [d |-> item.promise, par |-> parent,
                                 which |-> which,
                                 fn |-> func.k,
                                 v |-> func.v,
                                 sync |-> InSettle(s, parent),
                                 early |-> InCall(s, "then", item.promise),
                                 depth |-> Len(s.ctx)])]

\* Lines 148-159: which of the record's two members flush calls, if any.
pickFunc(st, item) ==
    IF st = STATUS_FULFILLED /\ isFunction(item.resolve) THEN "resolve"
    ELSE IF st = STATUS_REJECTED /\ isFunction(item.reject) THEN "reject"
    ELSE "none"

\* Mutant of runItem: no try / catch around the call.
runItemNoCatch(s, item, func, param) ==
    LET s1 == Call("callCallback", s, <<func, param, item.promise>>)
    IN  IF Threw(s1) THEN s1
        ELSE Call("resolvePromise", s1, <<item.promise, s1.ret>>)

\* Mutant of runItem: the derived promise is resolved with the parameter the
\* function was called with, not with what it returned.
runItemParam(s, item, func, param) ==
    LET s1 == Call("callCallback", s, <<func, param, item.promise>>)
        s2 == IF Threw(s1) THEN s1
              ELSE Call("resolvePromise", s1, <<item.promise, param>>)
    IN  IF Threw(s2) THEN rejectPromise(Caught(s2), item.promise, s2.exc)
        ELSE s2

\* try { resolvePromise(itemPromise, func(param)) }
\* catch (e) { rejectPromise(itemPromise, e) }
runItem(s, item, func, param) ==
    LET s1 == Call("callCallback", s, <<func, param, item.promise>>)
        s2 == IF Threw(s1) THEN s1
              ELSE Call("resolvePromise", s1, <<item.promise, s1.ret>>)
    IN  IF Threw(s2) THEN rejectPromise(Caught(s2), item.promise, s2.exc)
        ELSE s2

\* Mutant of flushList: depth first, the derived promise is flushed as soon
\* as its record has been consumed.
flushListDepth(s, promise, promises) ==
    IF s.list[promise] = <<>> THEN Call("flushWork", s, <<promises>>)
    ELSE LET item == Head(s.list[promise])
             s1 == [s EXCEPT !.list[promise] = Tail(@)]
             which == pickFunc(s1.status[promise], item)
             s2 == IF which = "resolve"
                   THEN runItem(Consumed(s1, item, promise, which), item,
                                item.resolve, s1.value[promise])
                   ELSE IF which = "reject"
                   THEN runItem(Consumed(s1, item, promise, which), item,
                                item.reject, s1.reason[promise])
                   ELSE adoptPromise(Consumed(s1, item, promise, which),
                                     item.promise, promise)
         IN  IF Threw(s2) THEN s2
             ELSE Call("flushList",
                       Call("flushWork", s2, <<<<item.promise>>>>),
                       <<promise, promises>>)

\* while (item = list.shift()) { ... promises.push(itemPromise) }
flushList(s, promise, promises) ==
    IF s.list[promise] = <<>> THEN Call("flushWork", s, <<promises>>)
    ELSE LET item == Head(s.list[promise])
             s1 == [s EXCEPT !.list[promise] = Tail(@)]
             which == pickFunc(s1.status[promise], item)
             s2 == IF which = "resolve"
                   THEN runItem(Consumed(s1, item, promise, which), item,
                                item.resolve, s1.value[promise])
                   ELSE IF which = "reject"
                   THEN runItem(Consumed(s1, item, promise, which), item,
                                item.reject, s1.reason[promise])
                   ELSE adoptPromise(Consumed(s1, item, promise, which),
                                     item.promise, promise)
         IN  IF Threw(s2) THEN s2
             ELSE Call("flushList", s2,
                       <<promise, Append(promises, item.promise)>>)

\* while (promise = promises.shift()) { if pending continue; ... }
flushWork(s, promises) ==
    IF promises = <<>> THEN s
    ELSE IF s.status[Head(promises)] = STATUS_PENDING
    THEN Call("flushWork", s, <<Tail(promises)>>)
    ELSE flushList(s, Head(promises), Tail(promises))

\* promise.list === 0 compares an array with a number and is never true.
flush(s, promise) == flushWork(s, <<promise>>)

\* ------------------------------------------- the executor's two callbacks
\* function (value) { resolvePromise(me, value); flush(me); }
settleResolve(s, me, v) ==
    LET s1 == resolvePromise(Enter(s, "settle", me), me, v)
    IN  Leave(IF Threw(s1) THEN s1 ELSE flush(s1, me))

\* function (reason) { rejectPromise(me, reason); flush(me); }
settleReject(s, me, r) ==
    LET s1 == rejectPromise(Enter(s, "settle", me), me, r)
    IN  Leave(flush(s1, me))

\* The definition a call that closes a cycle applies.
Call(name, s, a) ==
    CASE name = "resolvePromise" -> resolvePromise(s, a[1], a[2])
      [] name = "runThen" -> runThen(s, a[1], a[2], a[3], a[4])
      [] name = "flushList" -> flushList(s, a[1], a[2])
      [] name = "flushWork" -> flushWork(s, a[1])
      [] name = "flush" -> flush(s, a[1])
      [] name = "settleResolve" -> settleResolve(s, a[1], a[2])
      [] name = "settleReject" -> settleReject(s, a[1], a[2])
      [] name = "callCallback" -> callCallback(s, a[1], a[2], a[3])
      [] name = "none" -> s

\* ------------------------------------------------------------------- inputs
Promises == 1..Len(status)

PromiseRefs == {PromiseRef(p) : p \in Promises}

\* Values without a callable then member that are not promises.
PlainValues == {Plain(1), Plain(2), Undef}

\* Objects and functions whose then member is absent or not callable, and null.
InertValues == {Null, Func, Obj("noThen", 0), Obj("thenNotFunction", 0)}

\* Objects whose then member is a getter that runs code, or a function.
Thenables ==
    {Obj("getterThrows", 0), Obj("thenThrows", 0), Obj("thenKeeps", 0)}
    \cup {Obj(k, p) : k \in {"getterRejects", "getterResolves"}, p \in exposed}
    \cup {Obj(k, 0) : k \in {"thenResolves", "thenRejectsResolves",
                             "thenResolvesThrows"}}
    \cup {Obj("thenResolvesRejects", p) : p \in {0} \cup Promises}

\* Spec: plain values and promises.
CoreValues == {Plain(1)} \cup PromiseRefs
CoreReasons == {Plain(2)}
CoreCallbacks ==
    {NotFn, Cb("return", 0, Plain(1)), Cb("throw", 0, Undef),
     Cb("returnOwn", 0, Undef)}
    \cup {Cb("settle", p, Plain(1)) : p \in exposed}

\* SpecThenable: every kind of value resolvePromise tells apart.
ThenableValues == {Plain(1), Undef} \cup InertValues \cup Thenables \cup PromiseRefs
ThenableReasons == {Plain(2)}
ThenableCallbacks == {NotFn, Cb("return", 0, Plain(1))}

\* ----------------------------------------------------------------- actions
Init ==
    /\ status = <<>>
    /\ value = <<>>
    /\ reason = <<>>
    /\ list = <<>>
    /\ ticks = <<>>
    /\ exposed = {}
    /\ thens = <<>>
    /\ alls = <<>>
    /\ log = <<>>
    /\ first = <<>>
    /\ escaped = NoExc

Fits(s) == Len(s.thens) <= MaxThenables

\* At most n promises exist.
Within(n) == Len(status) <= n

\* The pairs of arguments then is called with: then(f, f) for every f of C,
\* and then(f) with one returning callback.
ThenArgs(C) ==
    {<<f, f>> : f \in C} \cup {<<Cb("return", 0, Plain(1)), NotFn>>}

\* p = new Promise(function (resolve, reject) { keep both for later })
Construct ==
    LET s == Promise(Cur) IN
    /\ Fits(s)
    /\ Commit([s EXCEPT !.exposed = @ \cup {NumPromises(s)}])

\* A call, from the top of the event loop, of the first callback handed to
\* the executor of p.
SettleResolve(p, v) ==
    LET s == Call("settleResolve", Cur, <<p, v>>) IN
    /\ p \in exposed
    /\ Fits(s)
    /\ Commit(s)

\* The same for the second callback.
SettleReject(p, r) ==
    LET s == Call("settleReject", Cur, <<p, r>>) IN
    /\ p \in exposed
    /\ Fits(s)
    /\ Commit(s)

\* p.then(onFulfilled, onRejected) called from the top of the event loop.
Then(p, onFulfilled, onRejected) ==
    LET s == then(Cur, p, onFulfilled, onRejected) IN
    /\ Fits(s)
    /\ Commit(s)

\* The scheduler runs the oldest task handed to nextTick: flush(me).
Tick ==
    /\ ticks # <<>>
    /\ LET s0 == [Cur EXCEPT !.ticks = Tail(@)]
           s == Leave(Call("flush", Enter(s0, "tick", Head(ticks)),
                           <<Head(ticks)>>))
       IN  Fits(s) /\ Commit(s)

\* Promise.all(promises) called from the top of the event loop.
All(promises) ==
    LET s == all(Cur, promises) IN
    /\ Fits(s)
    /\ Commit(s)

\* A thenable that kept its callbacks calls the first one with v.
ThenableResolve(i, v) ==
    LET t == thens[i]
        s0 == [Cur EXCEPT !.thens[i].isResolved = TRUE]
        s == thenResolveFn(s0, t.promise, v, t.isResolved)
    IN  Fits(s) /\ Commit(s)

\* A thenable that kept its callbacks calls the second one with r.
ThenableReject(i, r) ==
    LET t == thens[i]
        s0 == [Cur EXCEPT !.thens[i].isRejected = TRUE]
        s == thenRejectFn(s0, t.promise, r, t.isRejected)
    IN  Fits(s) /\ Commit(s)

Next ==
    \/ Construct /\ Within(MaxPromises)'
    \/ \E p \in Promises, v \in CoreValues :
          SettleResolve(p, v) /\ Within(MaxPromises)'
    \/ \E p \in Promises, r \in CoreReasons :
          SettleReject(p, r) /\ Within(MaxPromises)'
    \/ \E p \in Promises, a \in ThenArgs(CoreCallbacks) :
          Then(p, a[1], a[2]) /\ Within(MaxPromises)'
    \/ Tick /\ Within(MaxPromises)'

Spec == Init /\ [][Next]_vars

\* The same program with room for one more promise: an adoption chain with a
\* reaction at its end takes four.
NextChain ==
    \/ Construct /\ Within(MaxChainPromises)'
    \/ \E p \in Promises, v \in CoreValues :
          SettleResolve(p, v) /\ Within(MaxChainPromises)'
    \/ \E p \in Promises, r \in CoreReasons :
          SettleReject(p, r) /\ Within(MaxChainPromises)'
    \/ \E p \in Promises, f \in CoreCallbacks :
          Then(p, f, f) /\ Within(MaxChainPromises)'
    \/ Tick /\ Within(MaxChainPromises)'

SpecChain == Init /\ [][NextChain]_vars

NextThenable ==
    \/ Construct /\ Within(MaxThenablePromises)'
    \/ \E p \in Promises, v \in ThenableValues :
          SettleResolve(p, v) /\ Within(MaxThenablePromises)'
    \/ \E p \in Promises, r \in ThenableReasons :
          SettleReject(p, r) /\ Within(MaxThenablePromises)'
    \/ \E p \in Promises, f \in ThenableCallbacks :
          Then(p, f, f) /\ Within(MaxThenablePromises)'
    \/ Tick /\ Within(MaxThenablePromises)'
    \/ \E i \in 1..Len(thens), v \in {Plain(1)} \cup PromiseRefs :
          ThenableResolve(i, v) /\ Within(MaxThenablePromises)'
    \/ \E i \in 1..Len(thens), r \in ThenableReasons :
          ThenableReject(i, r) /\ Within(MaxThenablePromises)'

SpecThenable == Init /\ [][NextThenable]_vars

\* SpecCallback: what the functions handed to then return or throw.
CallbackCallbacks ==
    {Cb("add1", 0, Undef), Cb("throw", 0, Undef), Cb("return", 0, Undef),
     Cb("return", 0, Obj("thenResolves", 0))}
    \cup {Cb("return", 0, v) : v \in PromiseRefs}

NextCallback ==
    \/ Construct /\ Within(MaxCallbackPromises)'
    \/ \E p \in Promises :
          SettleResolve(p, Plain(1)) /\ Within(MaxCallbackPromises)'
    \/ \E p \in Promises :
          SettleReject(p, Plain(2)) /\ Within(MaxCallbackPromises)'
    \/ \E p \in Promises, f \in CallbackCallbacks :
          Then(p, f, f) /\ Within(MaxCallbackPromises)'
    \/ Tick /\ Within(MaxCallbackPromises)'

SpecCallback == Init /\ [][NextCallback]_vars

\* SpecPass: then(f), catch(f) and then() on promises of either outcome.
PassArgs ==
    {<<Cb("add1", 0, Undef), NotFn>>, <<NotFn, Cb("add1", 0, Undef)>>,
     <<Cb("throw", 0, Undef), NotFn>>, <<NotFn, Cb("throw", 0, Undef)>>,
     <<NotFn, NotFn>>}

PassValues == {Plain(1), Obj("noThen", 0)}

NextPass ==
    \/ Construct /\ Within(MaxPassPromises)'
    \/ \E p \in Promises, v \in PassValues :
          SettleResolve(p, v) /\ Within(MaxPassPromises)'
    \/ \E p \in Promises :
          SettleReject(p, Plain(2)) /\ Within(MaxPassPromises)'
    \/ \E p \in Promises, a \in PassArgs :
          Then(p, a[1], a[2]) /\ Within(MaxPassPromises)'
    \/ Tick /\ Within(MaxPassPromises)'

SpecPass == Init /\ [][NextPass]_vars

\* SpecAll: Promise.all over the promises made so far, in any order, with
\* repetitions, settled before or after the call.
AllValues == {Plain(1), Plain(2)}
AllReasons == {Plain(3), Plain(4)}

\* The arrays of promises that leave room for the promises all creates.
AllInputs ==
    UNION {[1..n -> Promises] :
             n \in 0..(MaxAllPromises - Len(status) - 1)}

NextAll ==
    \/ Construct /\ Within(MaxAllPromises)'
    \/ \E p \in Promises, v \in AllValues :
          SettleResolve(p, v) /\ Within(MaxAllPromises)'
    \/ \E p \in Promises, r \in AllReasons :
          SettleReject(p, r) /\ Within(MaxAllPromises)'
    \/ \E promises \in AllInputs : All(promises) /\ Within(MaxAllPromises)'
    \/ Tick /\ Within(MaxAllPromises)'

SpecAll == Init /\ [][NextAll]_vars

\* SpecRaise: promises resolved with objects whose then member throws, when
\* read or when called, before or after it has called one of its arguments.
RaiseValues ==
    {Obj("getterThrows", 0), Obj("thenThrows", 0), Obj("thenRejectsThrows", 0)}
    \cup {Obj("thenResolvesThrows", q) : q \in {0} \cup Promises}
    \cup PromiseRefs

NextRaise ==
    \/ Construct /\ Within(MaxRaisePromises)'
    \/ \E p \in Promises, v \in RaiseValues :
          SettleResolve(p, v) /\ Within(MaxRaisePromises)'
    \/ \E p \in Promises :
          SettleReject(p, Plain(3)) /\ Within(MaxRaisePromises)'
    \/ \E p \in Promises :
          Then(p, Cb("add1", 0, Undef), NotFn) /\ Within(MaxRaisePromises)'
    \/ Tick /\ Within(MaxRaisePromises)'

SpecRaise == Init /\ [][NextRaise]_vars

\* SpecOrder: trees of then calls, flushed in one pass or in several.
OrderCallbacks == {Cb("add1", 0, Undef), NotFn}

NextOrder ==
    \/ Construct /\ Within(MaxOrderPromises)'
    \/ \E p \in Promises :
          SettleResolve(p, Plain(1)) /\ Within(MaxOrderPromises)'
    \/ \E p \in Promises :
          SettleReject(p, Plain(2)) /\ Within(MaxOrderPromises)'
    \/ \E p \in Promises, f \in OrderCallbacks :
          Then(p, f, f) /\ Within(MaxOrderPromises)'
    \/ Tick /\ Within(MaxOrderPromises)'

SpecOrder == Init /\ [][NextOrder]_vars

\* ================================================================== claims
LogIdx == 1..Len(log)

IsPending(p) == status[p] = STATUS_PENDING

Idle == ticks = <<>>

\* C1 (as claimed): once a promise has left pending, its status, value and
\* reason stay what they were at that moment, whatever is called later,
\* re-entrant settle calls made while a then member is read included.
C1_WriteOnce ==
    \A p \in Promises :
        ~IsPending(p) => Outcome(status[p], value[p], reason[p]) = first[p]

\* C2 (as claimed): no function registered with then is called inside the
\* settle call that moved the promise it is registered on out of pending.
C2_NeverInsideSettle ==
    \A i \in LogIdx : log[i].which # "none" => ~log[i].sync

\* C3: then called on a promise that is already fulfilled or rejected calls
\* neither function before it returns: it appends one record to the list,
\* hands one flush to nextTick, consumes nothing and settles nothing.
C3_ThenOnSettledDefers ==
    /\ [](\A i \in LogIdx : ~log[i].early)
    /\ [][\A p \in Promises : \A a \in ThenArgs(CoreCallbacks) :
            (/\ ~IsPending(p)
             /\ Len(status') = Len(status) + 1
             /\ Then(p, a[1], a[2]))
            => /\ log' = log
               /\ ticks' = Append(ticks, p)
               /\ list'[p] = Append(list[p], [resolve |-> a[1], reject |-> a[2],
                                              promise |-> Len(status')])
               /\ \A q \in Promises :
                     /\ status'[q] = status[q]
                     /\ value'[q] = value[q]
                     /\ reason'[q] = reason[q]
               /\ status'[Len(status')] = STATUS_PENDING]_vars

\* C3 witness: a settled promise holds a record that then has just queued,
\* with its flush waiting in the nextTick queue.
C3_Witness ==
    \E p \in Promises :
        /\ ~IsPending(p)
        /\ list[p] # <<>>
        /\ \E i \in 1..Len(ticks) : ticks[i] = p

\* C4 (as claimed): every record queued on a promise that has left pending is
\* consumed by the time the scheduler has nothing left to run, however the
\* promise was settled.
C4_ReactionsDelivered ==
    Idle => \A p \in Promises : ~IsPending(p) => list[p] = <<>>

\* C5: the records queued on one promise are consumed in the order in which
\* then queued them (the derived promise of a later then call has the larger
\* number), and the records still queued are later ones, in that order.
C5_FIFO ==
    /\ \A i, j \in LogIdx :
          (i < j /\ log[i].par = log[j].par) => log[i].d < log[j].d
    /\ \A p \in Promises : \A k \in 1..Len(list[p]) :
          /\ \A m \in 1..(k - 1) : list[p][m].promise < list[p][k].promise
          /\ \A i \in LogIdx : log[i].par = p => log[i].d < list[p][k].promise

\* C5 witness: two records of one promise have been consumed, one of them
\* queued while the promise was pending (consumed inside the settle call) and
\* one queued after it had settled (consumed by a nextTick task).
C5_Witness ==
    \E i, j \in LogIdx :
        /\ i < j
        /\ log[i].par = log[j].par
        /\ log[i].sync
        /\ ~log[j].sync

\* C6: a record is consumed at most once (one function of it called, once),
\* and a consumed record is in no list any more.
C6_AtMostOnce ==
    /\ \A i, j \in LogIdx : log[i].d = log[j].d => i = j
    /\ \A i \in LogIdx : \A p \in Promises : \A k \in 1..Len(list[p]) :
          list[p][k].promise # log[i].d

\* C6 witness: a record was consumed by a flush nested in a callback that
\* another flush was running, after another record.
C6_Witness ==
    \E i \in LogIdx : i > 1 /\ log[i].depth >= 2 /\ log[i].which # "none"

\* C7 (as claimed): resolving pending p with p itself leaves p rejected with
\* the self-resolution error and throws nothing to the caller, from the
\* executor's resolve callback and when a callback returns its own derived
\* promise.
C7_SelfResolutionRejects ==
    /\ [](\A i \in LogIdx : log[i].fn = "returnOwn" =>
            /\ status[log[i].d] = STATUS_REJECTED
            /\ reason[log[i].d] = SelfError)
    /\ [][\A p \in exposed :
            (IsPending(p) /\ SettleResolve(p, PromiseRef(p)))
            => /\ status'[p] = STATUS_REJECTED
               /\ reason'[p] = SelfError
               /\ escaped' = NoExc]_vars

\* C8 (as claimed): a promise f resolved with promise g mirrors g: its value
\* is never a promise, and once g has left pending and the scheduler has
\* nothing left to run, f has left pending too (the record adoptPromise
\* queued on g names f).
C8_AdoptionMirrors ==
    /\ \A p \in Promises : ~isPromise(value[p])
    /\ \A g \in Promises : \A k \in 1..Len(list[g]) :
          (list[g][k].resolve.k = "adoptResolve" /\ Idle /\ ~IsPending(g))
          => ~IsPending(list[g][k].resolve.n)

\* C9 (as claimed): of the calls a thenable makes to the two functions it is
\* given, only the first has an effect: a then that passes a pending promise
\* to the first function and then calls the second leaves the promise
\* pending, and a thenable that has called one function changes nothing by
\* calling either again.
C9_FirstCallWins ==
    [][/\ \A p \in exposed : \A q \in Promises :
            (/\ p # q
             /\ IsPending(p)
             /\ IsPending(q)
             /\ SettleResolve(p, Obj("thenResolvesRejects", q)))
            => status'[p] = STATUS_PENDING
       /\ \A i \in 1..Len(thens) :
            (/\ thens[i].isResolved \/ thens[i].isRejected
             /\ \/ \E v \in {Plain(1)} \cup PromiseRefs : ThenableResolve(i, v)
                \/ \E r \in ThenableReasons : ThenableReject(i, r))
            => /\ status' = status
               /\ value' = value
               /\ reason' = reason]_vars

\* C10 (as claimed): resolving a pending promise with a value that is no
\* promise and has no callable then member (a primitive, undefined, null, an
\* object or function whose then is absent or not callable) fulfils it with
\* that value.
C10_PlainValueFulfils ==
    [][\A p \in exposed : \A v \in PlainValues \cup InertValues :
          (IsPending(p) /\ SettleResolve(p, v))
          => (status'[p] = STATUS_FULFILLED /\ value'[p] = v)]_vars

\* The parameter flush passed to the function of consumption i.
Param(i) ==
    IF log[i].which = "resolve" THEN value[log[i].par] ELSE reason[log[i].par]

IsFulfilledWith(p, v) == status[p] = STATUS_FULFILLED /\ value[p] = v

IsRejectedWith(p, r) == status[p] = STATUS_REJECTED /\ reason[p] = r

\* C11: when flush calls a function of a record, the derived promise gets its
\* outcome from that call alone: rejected with what the function threw;
\* fulfilled with the value it returned when that is a plain value (x + 1 for
\* a function adding one, so a chain of such functions counts up); settled as
\* the thenable it returned says; and, when it returned a promise q, pending
\* only while q is pending or q still holds the adoption record, and
\* otherwise with the status, value and reason of q.
C11_CallbackDecides ==
    \A i \in LogIdx :
        LET d == log[i].d
            x == log[i].v
        IN  /\ log[i].fn = "throw" => IsRejectedWith(d, UserError)
            /\ log[i].fn = "add1" =>
                  IsFulfilledWith(d, Add1(Param(i)))
            /\ (log[i].fn = "return" /\ x = Undef) => IsFulfilledWith(d, Undef)
            /\ (log[i].fn = "return" /\ x = Obj("thenResolves", 0)) =>
                  IsFulfilledWith(d, Plain(1))
            /\ (log[i].fn = "return" /\ isPromise(x)) =>
                  /\ IsPending(d) =>
                        \/ IsPending(x.n)
                        \/ \E k \in 1..Len(list[x.n]) :
                              list[x.n][k].resolve = Cb("adoptResolve", d, Undef)
                  /\ ~IsPending(d) =>
                        /\ status[d] = status[x.n]
                        /\ value[d] = value[x.n]
                        /\ reason[d] = reason[x.n]

\* C11 witness: a chain of two functions adding one, on a promise fulfilled
\* with 1, has ended in a promise fulfilled with 3.
C11_Witness ==
    \E i, j \in LogIdx :
        /\ log[i].fn = "add1"
        /\ log[j].fn = "add1"
        /\ log[j].par = log[i].d
        /\ IsFulfilledWith(log[i].par, Plain(1))
        /\ IsFulfilledWith(log[j].d, Plain(3))

\* C12: a record whose function for the parent's outcome is absent or not a
\* function gives its derived promise the parent's outcome, status, value
\* and reason; a function is called only for the outcome it was registered
\* for; and a function registered for rejection that returns x fulfils the
\* derived promise with x.
C12_PassThrough ==
    \A i \in LogIdx :
        LET d == log[i].d
            par == log[i].par
        IN  /\ log[i].which = "none" =>
                  /\ ~IsPending(par)
                  /\ status[d] = status[par]
                  /\ value[d] = value[par]
                  /\ reason[d] = reason[par]
            /\ log[i].which = "resolve" => status[par] = STATUS_FULFILLED
            /\ log[i].which = "reject" => status[par] = STATUS_REJECTED
            /\ (log[i].which = "reject" /\ log[i].fn = "add1") =>
                  IsFulfilledWith(d, Add1(reason[par]))

\* C12 witness: a rejection has passed through then(f) unchanged and the
\* function of a catch on the derived promise has turned it into a
\* fulfilment.
C12_Witness ==
    \E i, j \in LogIdx :
        /\ log[i].which = "none"
        /\ IsRejectedWith(log[i].par, Plain(2))
        /\ IsRejectedWith(log[i].d, Plain(2))
        /\ log[j].par = log[i].d
        /\ log[j].which = "reject"
        /\ IsFulfilledWith(log[j].d, Plain(3))

\* C13: in a step in which a function called by flush throws, nothing is
\* thrown to the caller of the settle callback or to the scheduler; the
\* derived promise of that record is rejected with the error; and when the
\* step is over no record is left on the promise the record was queued on
\* nor on the derived promise: the flush went on with all of them.
C13_ErrorConfined ==
    [][\A i \in (Len(log) + 1)..Len(log') :
          log'[i].fn = "throw" =>
              /\ escaped' = NoExc
              /\ status'[log'[i].d] = STATUS_REJECTED
              /\ reason'[log'[i].d] = UserError
              /\ list'[log'[i].par] = <<>>
              /\ list'[log'[i].d] = <<>>]_vars

\* C13 witness: a function threw, and the record queued after it on the same
\* promise was consumed in the same settle call, its function called.
C13_Witness ==
    \E i, j \in LogIdx :
        /\ i < j
        /\ log[i].fn = "throw"
        /\ log[j].par = log[i].par
        /\ log[i].sync
        /\ log[j].sync
        /\ log[j].fn = "add1"
        /\ ~IsPending(log[j].d)
        /\ escaped = NoExc

\* ------------------------------------------------------ Promise.all claims
AllIdx == 1..Len(alls)

\* The consumptions of the records the a-th call of Promise.all queued: then
\* gave the record of input i the derived promise result + i.
AllLog(a, which) ==
    {i \in LogIdx : /\ log[i].d > alls[a].result
                    /\ log[i].d <= alls[a].result + alls[a].length
                    /\ log[i].which = which}

Min(S) == CHOOSE x \in S : \A y \in S : x <= y

C16_AllEmptyFulfils ==
    \A a \in AllIdx :
        alls[a].length = 0 => IsFulfilledWith(alls[a].result, ArrayRef(a))

\* The status, value and reason of p after the executor's resolve callback
\* of p is called with v in the current state.
After(p, v) ==
    LET s == Call("settleResolve", Cur, <<p, v>>)
    IN  Outcome(s.status[p], s.value[p], s.reason[p])

\* C17: resolving a pending promise with an object whose then member throws
\* when read, or is a function that throws before calling either of its
\* arguments, rejects the promise with the error; when then throws after it
\* has called one of its arguments, the promise is left as that call left
\* it (as the same then without the throw leaves it); and in no case is the
\* error thrown to the caller.
C17_ThenableThrow ==
    [][\A p \in exposed :
          IsPending(p) =>
            /\ \A v \in {Obj("getterThrows", 0), Obj("thenThrows", 0)} :
                  SettleResolve(p, v) =>
                     /\ status'[p] = STATUS_REJECTED
                     /\ reason'[p] = UserError
                     /\ escaped' = NoExc
            /\ \A q \in {0} \cup (Promises \ {p}) :
                  SettleResolve(p, Obj("thenResolvesThrows", q)) =>
                     /\ Outcome(status'[p], value'[p], reason'[p])
                          = After(p, Obj("thenResolves", q))
                     /\ escaped' = NoExc
            /\ SettleResolve(p, Obj("thenRejectsThrows", 0)) =>
                     /\ status'[p] = STATUS_REJECTED
                     /\ reason'[p] = Plain(2)
                     /\ escaped' = NoExc]_vars

\* C17 witness: one promise is rejected with the error a then member threw;
\* another is fulfilled with 1, the value a then passed to its first
\* argument before it threw (nothing else fulfils with 1 in SpecRaise).
C17_Witness ==
    \E p, q \in exposed :
        /\ IsRejectedWith(p, UserError)
        /\ IsFulfilledWith(q, Plain(1))

\* The consumptions of the step: those of one flush when no function called
\* by it settles a promise.
NewLog == (Len(log) + 1)..Len(log')

C19_ThenOnPendingOnlyQueues ==
    [][\A p \in Promises : \A a \in PassArgs :
          (IsPending(p) /\ Then(p, a[1], a[2]))
          => /\ Len(status') = Len(status) + 1
             /\ status'[Len(status')] = STATUS_PENDING
             /\ list'[Len(status')] = <<>>
             /\ list'[p] = Append(list[p], [resolve |-> a[1], reject |-> a[2],
                                            promise |-> Len(status')])
             /\ ticks' = ticks
             /\ log' = log
             /\ escaped' = NoExc
             /\ \A q \in Promises :
                   /\ q # p => list'[q] = list[q]
                   /\ status'[q] = status[q]
                   /\ value'[q] = value[q]
                   /\ reason'[q] = reason[q]]_vars

\* C19 witness: a pending promise holds two records queued by then, the
\* second with two arguments that are not functions; nothing is scheduled
\* and nothing has been consumed.
C19_Witness ==
    \E p \in Promises :
        /\ IsPending(p)
        /\ Len(list[p]) = 2
        /\ list[p][2].resolve = NotFn
        /\ list[p][2].reject = NotFn
        /\ IsPending(list[p][2].promise)
        /\ ticks = <<>>
        /\ log = <<>>

\* g holds the record adoptPromise queued when f was resolved with g.
Adopting(f, g) ==
    \E k \in 1..Len(list[g]) : list[g][k].resolve = Cb("adoptResolve", f, Undef)

\* C20: resolving pending f with pending g leaves f pending, with a record
\* queued on g and nothing thrown; a reject call on f made while f is
\* pending and g, still pending, holds that record rejects f with the reason
\* of the call; and no later step, the settlement of g included, changes the
\* status, value or reason of a promise that has settled.
C20_AdoptionDoesNotLock ==
    [][/\ \A f \in exposed : \A g \in Promises \ {f} :
            /\ (IsPending(f) /\ IsPending(g)
                 /\ SettleResolve(f, PromiseRef(g)))
                => /\ status'[f] = STATUS_PENDING
                   /\ Adopting(f, g)'
                   /\ escaped' = NoExc
            /\ (IsPending(f) /\ IsPending(g) /\ Adopting(f, g)
                 /\ SettleReject(f, Plain(3)))
                => /\ status'[f] = STATUS_REJECTED
                   /\ reason'[f] = Plain(3)
       /\ \A p \in Promises :
            ~IsPending(p) => /\ status'[p] = status[p]
                             /\ value'[p] = value[p]
                             /\ reason'[p] = reason[p]]_vars

\* C20 witness: f and g are the only promises with settle callbacks; f is
\* rejected with the reason of a reject call; g has settled otherwise, and
\* the record adoptPromise queued on g for f has been consumed.
C20_Witness ==
    \E f, g \in exposed :
        /\ exposed = {f, g}
        /\ f # g
        /\ IsRejectedWith(f, Plain(3))
        /\ ~IsPending(g)
        /\ reason[g] # Plain(3)
        /\ \E i \in LogIdx :
              /\ log[i].par = g
              /\ log[i].fn \in {"adoptResolve", "adoptReject"}

====
